---- MODULE Spec2Model ----
(***************************************************************************)
(* Vehicle tracking backend: the vehicle routes of                         *)
(* src/backend/routes/vehicle.js over the Mongoose model of                *)
(* src/frontend/models/vehicle.js, the user routes of                      *)
(* src/backend/routes/user.js, the endpoints and final handlers of         *)
(* src/backend/index.js, and the simulator of src/unnamed/part_000.        *)
(*                                                                         *)
(* Coordinates are modelled on an integer grid around the limits the code  *)
(* compares against (90 and 180).  A JavaScript value is a record          *)
(* [t, v]: t is the kind of value, v its number (0 where it has none).     *)
(* A name is a record [t, s]: s is the string as a sequence of characters. *)
(***************************************************************************)
EXTENDS Integers, Sequences, FiniteSets, TLC

VARIABLES store, now, nextId, ops, queryTrims, resp, vargs, vres

\* The user service, the application's own endpoints, the simulator and the
\* handlers in flight are separate parts of the state, each idle in the
\* specifications of the other parts.
VARIABLES users, uresp, nodeEnv, aresp, vehicles, simPc, inflight, ticks,
          simLog, handlers, version

userVars == <<users, uresp>>
appVars == <<nodeEnv, aresp>>
simVars == <<vehicles, simPc, inflight, ticks, simLog>>
concVars == <<handlers, version>>
serviceVars == <<store, now, nextId, ops, queryTrims, resp>>

vars == <<store, now, nextId, ops, queryTrims, resp, vargs, vres,
          users, uresp, nodeEnv, aresp, vehicles, simPc, inflight, ticks,
          simLog, handlers, version>>

(***************************************************************************)
(* Bounds of the model.                                                    *)
(***************************************************************************)
MaxNameLen == 2
MaxOps == 3
MaxClock == 2
MaxId == 2

(***************************************************************************)
(* Program constants.                                                      *)
(***************************************************************************)
LatLimit == 90
LngLimit == 180
HistoryCap == 100

(***************************************************************************)
(* JavaScript values.                                                      *)
(***************************************************************************)
Undef == [t |-> "undefined", v |-> 0]
Nul == [t |-> "null", v |-> 0]
NaN == [t |-> "nan", v |-> 0]
Num(n) == [t |-> "number", v |-> n]
Inf(sign) == [t |-> "inf", v |-> sign]
NumStr(n) == [t |-> "numstr", v |-> n]
PrefixStr(n) == [t |-> "prefixstr", v |-> n]
IsoStr(n) == [t |-> "isostr", v |-> n]
BadStr == [t |-> "badstr", v |-> 0]

\* typeof x
TypeOf(x) ==
    CASE x.t \in {"number", "nan", "inf"} -> "number"
      [] x.t \in {"numstr", "prefixstr", "isostr", "badstr"} -> "string"
      [] x.t = "null" -> "object"
      [] OTHER -> "undefined"

\* isNaN(x) for a value of type number
IsNaN(x) == x.t = "nan"

\* x < n and x > n for a value x of type number and a finite number n:
\* every comparison with NaN is false.
NumLT(x, n) ==
    CASE x.t = "number" -> x.v < n
      [] x.t = "inf" -> x.v < 0
      [] OTHER -> FALSE

NumGT(x, n) ==
    CASE x.t = "number" -> x.v > n
      [] x.t = "inf" -> x.v > 0
      [] OTHER -> FALSE

\* parseFloat(x): a number is returned as it is, a string gives the number
\* it starts with, anything else gives NaN.
ParseFloat(x) ==
    CASE x.t \in {"number", "nan", "inf"} -> x
      [] x.t \in {"numstr", "prefixstr"} -> Num(x.v)
      [] OTHER -> NaN

\* Truthiness of a value: !x is the negation.
Truthy(x) ==
    CASE x.t = "number" -> x.v # 0
      [] x.t \in {"inf", "numstr", "prefixstr", "isostr", "badstr"} -> TRUE
      [] OTHER -> FALSE

(***************************************************************************)
(* validateCoordinates(lat, lng): the result is [valid, error].            *)
(***************************************************************************)
validateCoordinatesOpenBounds(lat, lng) ==
    IF TypeOf(lat) # "number" \/ TypeOf(lng) # "number"
    THEN [valid |-> FALSE, error |-> "Coordinates must be numbers"]
    ELSE IF ~NumGT(lat, -LatLimit) \/ ~NumLT(lat, LatLimit)
    THEN [valid |-> FALSE, error |-> "Invalid latitude"]
    ELSE IF ~NumGT(lng, -LngLimit) \/ ~NumLT(lng, LngLimit)
    THEN [valid |-> FALSE, error |-> "Invalid longitude"]
    ELSE [valid |-> TRUE, error |-> ""]

validateCoordinatesNoNaN(lat, lng) ==
    IF TypeOf(lat) # "number" \/ TypeOf(lng) # "number"
    THEN [valid |-> FALSE, error |-> "Coordinates must be numbers"]
    ELSE IF NumLT(lat, -LatLimit) \/ NumGT(lat, LatLimit)
    THEN [valid |-> FALSE, error |-> "Invalid latitude"]
    ELSE IF NumLT(lng, -LngLimit) \/ NumGT(lng, LngLimit)
    THEN [valid |-> FALSE, error |-> "Invalid longitude"]
    ELSE [valid |-> TRUE, error |-> ""]

validateCoordinates(lat, lng) ==
    IF TypeOf(lat) # "number" \/ TypeOf(lng) # "number"
    THEN [valid |-> FALSE, error |-> "Coordinates must be numbers"]
    ELSE IF NumLT(lat, -LatLimit) \/ NumGT(lat, LatLimit)
    THEN [valid |-> FALSE, error |-> "Invalid latitude"]
    ELSE IF NumLT(lng, -LngLimit) \/ NumGT(lng, LngLimit)
    THEN [valid |-> FALSE, error |-> "Invalid longitude"]
    ELSE IF IsNaN(lat) \/ IsNaN(lng)
    THEN [valid |-> FALSE, error |-> "Coordinates cannot be NaN"]
    ELSE [valid |-> TRUE, error |-> ""]

(***************************************************************************)
(* Names.                                                                  *)
(***************************************************************************)
Chars == {"a", " "}

Strings == UNION {[1..n -> Chars] : n \in 0..MaxNameLen}

NoName == [t |-> "undefined", s |-> <<>>]
Name(s) == [t |-> "string", s |-> s]

\* !name: undefined and the empty string are falsy.
NameFalsy(name) == name.t = "undefined" \/ name.s = <<>>

RECURSIVE TrimStart(_)
TrimStart(s) ==
    IF s # <<>> /\ Head(s) = " " THEN TrimStart(Tail(s)) ELSE s

RECURSIVE TrimEnd(_)
TrimEnd(s) ==
    IF s # <<>> /\ s[Len(s)] = " " THEN TrimEnd(SubSeq(s, 1, Len(s) - 1)) ELSE s

\* String.prototype.trim
Trim(s) == TrimEnd(TrimStart(s))

(***************************************************************************)
(* Dates.  A Date is its time in milliseconds; InvalidDate is the Date     *)
(* that new Date(x) gives for an x that is no time.                        *)
(***************************************************************************)
InvalidDate == -1

\* new Date(x), for the values a client sends as lastUpdated: a number of
\* milliseconds or an ISO string.
NewDate(x) ==
    CASE x.t = "number" -> x.v
      [] x.t = "isostr" -> x.v
      [] OTHER -> InvalidDate

(***************************************************************************)
(* The vehicle collection.  store maps the _id of each stored document to  *)
(* the document [id, name, lat, lng, lastUpdated, locationHistory].        *)
(***************************************************************************)
EmptyStore == [i \in {} |-> 0]

HistoryEntry(lat, lng, timestamp) ==
    [lat |-> lat, lng |-> lng, timestamp |-> timestamp]

NewVehicleNoHistory(id, name, lat, lng, clock) ==
    [id |-> id, name |-> name, lat |-> lat, lng |-> lng,
     lastUpdated |-> clock,
     locationHistory |-> <<>>]

\* new Vehicle({...}) of the create handler.
NewVehicle(id, name, lat, lng, clock) ==
    [id |-> id, name |-> name, lat |-> lat, lng |-> lng,
     lastUpdated |-> clock,
     locationHistory |-> <<HistoryEntry(lat, lng, clock)>>]

\* Schema validation run by save(): name is required, and the empty string
\* does not satisfy required; lastUpdated must be a valid Date.
SchemaValid(doc) == doc.name # <<>> /\ doc.lastUpdated # InvalidDate

\* The name of a query filter as Mongoose casts it.  Whether the schema's
\* trim setter is applied to query filters depends on the Mongoose version
\* the build installs, so it is a choice made once per run (queryTrims).
CastQueryName(s) == IF queryTrims THEN Trim(s) ELSE s

Min(S) == CHOOSE x \in S : \A y \in S : x <= y

\* Vehicle.findOne({ name: s }): the _id of the first matching document,
\* 0 if there is none.
FindOneByName(st, s) ==
    LET hits == {i \in DOMAIN st : st[i].name = CastQueryName(s)}
    IN  IF hits = {} THEN 0 ELSE Min(hits)

\* Vehicle.findById(id) for a well-formed id: 0 if there is none.
FindById(st, n) == IF n \in DOMAIN st THEN n ELSE 0

Remove(st, i) == [j \in DOMAIN st \ {i} |-> st[j]]

\* array.slice(-n)
SliceLast(h, n) == IF Len(h) > n THEN SubSeq(h, Len(h) - n + 1, Len(h)) ELSE h

(***************************************************************************)
(* Requests and responses.                                                 *)
(***************************************************************************)
NoId == [valid |-> FALSE, n |-> 0]
ObjectId(n) == [valid |-> TRUE, n |-> n]

Req(name, lat, lng, lastUpdated, id) ==
    [name |-> name, lat |-> lat, lng |-> lng, lastUpdated |-> lastUpdated,
     id |-> id]

NoReq == Req(NoName, Undef, Undef, Undef, NoId)

\* A handler that sends its objects without the success field.
ResponseNoSuccess(op, req, status, err, body) ==
    [op |-> op, req |-> req, status |-> status, err |-> err, body |-> body,
     success |-> "absent"]

\* res.status(status).json({ success, ... }): err is the kind of error of
\* the message, body the documents the response carries.  Every object the
\* vehicle handlers send with an error string has success: false, every
\* other object they send has success: true.
Response(op, req, status, err, body) ==
    [op |-> op, req |-> req, status |-> status, err |-> err, body |-> body,
     success |-> IF err = "" THEN "true" ELSE "false"]

\* res.status(status).json(array): the body is the array itself, there is
\* no success field.
ArrayResponse(op, req, status, body) ==
    [op |-> op, req |-> req, status |-> status, err |-> "", body |-> body,
     success |-> "absent"]

Outcome(st, nid, r) == [store |-> st, nextId |-> nid, resp |-> r]

(***************************************************************************)
(* The handlers, each as the function from the collection, the next _id,   *)
(* the clock and the request to the collection and the response it leaves. *)
(***************************************************************************)

CreateVehicleNoCheck(st, nid, clock, req) ==
    LET parsedLat == ParseFloat(req.lat)
        parsedLng == ParseFloat(req.lng)
        validation == validateCoordinates(parsedLat, parsedLng)
        newVehicle == NewVehicle(nid, Trim(req.name.s), parsedLat, parsedLng, clock)
    IN  IF NameFalsy(req.name) \/ req.lat = Undef \/ req.lng = Undef
        THEN Outcome(st, nid, Response("create", req, 400, "validation", <<>>))
        ELSE IF ~validation.valid
        THEN Outcome(st, nid, Response("create", req, 400, "validation", <<>>))
        ELSE IF ~SchemaValid(newVehicle)
        THEN Outcome(st, nid, Response("create", req, 500, "internal", <<>>))
        ELSE Outcome(st @@ (nid :> newVehicle), nid + 1,
                     Response("create", req, 201, "", <<newVehicle>>))

CreateVehicleNoValidation(st, nid, clock, req) ==
    LET parsedLat == ParseFloat(req.lat)
        parsedLng == ParseFloat(req.lng)
        existingVehicle == FindOneByName(st, Trim(req.name.s))
        newVehicle == NewVehicle(nid, Trim(req.name.s), parsedLat, parsedLng, clock)
    IN  IF NameFalsy(req.name) \/ req.lat = Undef \/ req.lng = Undef
        THEN Outcome(st, nid, Response("create", req, 400, "validation", <<>>))
        ELSE IF existingVehicle # 0
        THEN Outcome(st, nid, Response("create", req, 400, "conflict", <<>>))
        ELSE IF ~SchemaValid(newVehicle)
        THEN Outcome(st, nid, Response("create", req, 500, "internal", <<>>))
        ELSE Outcome(st @@ (nid :> newVehicle), nid + 1,
                     Response("create", req, 201, "", <<newVehicle>>))

\* POST / (create)
CreateVehicle(st, nid, clock, req) ==
    LET parsedLat == ParseFloat(req.lat)
        parsedLng == ParseFloat(req.lng)
        validation == validateCoordinates(parsedLat, parsedLng)
        existingVehicle == FindOneByName(st, Trim(req.name.s))
        newVehicle == NewVehicle(nid, Trim(req.name.s), parsedLat, parsedLng, clock)
    IN  IF NameFalsy(req.name) \/ req.lat = Undef \/ req.lng = Undef
        THEN Outcome(st, nid, Response("create", req, 400, "validation", <<>>))
        ELSE IF ~validation.valid
        THEN Outcome(st, nid, Response("create", req, 400, "validation", <<>>))
        ELSE IF existingVehicle # 0
        THEN Outcome(st, nid, Response("create", req, 400, "conflict", <<>>))
        ELSE IF ~SchemaValid(newVehicle)
        THEN Outcome(st, nid, Response("create", req, 500, "internal", <<>>))
        ELSE Outcome(st @@ (nid :> newVehicle), nid + 1,
                     Response("create", req, 201, "", <<newVehicle>>))

UpdatedVehicleKeepOldest(vehicle, parsedLat, parsedLng, lastUpdated, clock) ==
    LET pushed == Append(vehicle.locationHistory,
                         HistoryEntry(parsedLat, parsedLng, clock))
    IN  [vehicle EXCEPT
            !.lat = parsedLat,
            !.lng = parsedLng,
            !.lastUpdated = IF Truthy(lastUpdated) THEN NewDate(lastUpdated)
                            ELSE clock,
            !.locationHistory = IF Len(pushed) > HistoryCap
                                THEN SubSeq(pushed, 1, HistoryCap)
                                ELSE pushed]

\* The document of the update handler just before vehicle.save().
UpdatedVehicle(vehicle, parsedLat, parsedLng, lastUpdated, clock) ==
    LET pushed == Append(vehicle.locationHistory,
                         HistoryEntry(parsedLat, parsedLng, clock))
    IN  [vehicle EXCEPT
            !.lat = parsedLat,
            !.lng = parsedLng,
            !.lastUpdated = IF Truthy(lastUpdated) THEN NewDate(lastUpdated)
                            ELSE clock,
            !.locationHistory = IF Len(pushed) > HistoryCap
                                THEN SliceLast(pushed, HistoryCap)
                                ELSE pushed]

UpdateVehicleUpsert(st, nid, clock, req) ==
    LET parsedLat == ParseFloat(req.lat)
        parsedLng == ParseFloat(req.lng)
        validation == validateCoordinates(parsedLat, parsedLng)
        found == FindOneByName(st, req.name.s)
        vehicle == UpdatedVehicle(st[found], parsedLat, parsedLng,
                                  req.lastUpdated, clock)
        created == NewVehicle(nid, Trim(req.name.s), parsedLat, parsedLng, clock)
    IN  IF NameFalsy(req.name) \/ req.lat = Undef \/ req.lng = Undef
        THEN Outcome(st, nid, Response("update", req, 400, "validation", <<>>))
        ELSE IF ~validation.valid
        THEN Outcome(st, nid, Response("update", req, 400, "validation", <<>>))
        ELSE IF found = 0 /\ ~SchemaValid(created)
        THEN Outcome(st, nid, Response("update", req, 500, "internal", <<>>))
        ELSE IF found = 0
        THEN Outcome(st @@ (nid :> created), nid + 1,
                     Response("update", req, 200, "", <<created>>))
        ELSE IF ~SchemaValid(vehicle)
        THEN Outcome(st, nid, Response("update", req, 500, "internal", <<>>))
        ELSE Outcome([st EXCEPT ![found] = vehicle], nid,
                     Response("update", req, 200, "", <<vehicle>>))

\* POST /update
UpdateVehicle(st, nid, clock, req) ==
    LET parsedLat == ParseFloat(req.lat)
        parsedLng == ParseFloat(req.lng)
        validation == validateCoordinates(parsedLat, parsedLng)
        found == FindOneByName(st, req.name.s)
        vehicle == UpdatedVehicle(st[found], parsedLat, parsedLng,
                                  req.lastUpdated, clock)
    IN  IF NameFalsy(req.name) \/ req.lat = Undef \/ req.lng = Undef
        THEN Outcome(st, nid, Response("update", req, 400, "validation", <<>>))
        ELSE IF ~validation.valid
        THEN Outcome(st, nid, Response("update", req, 400, "validation", <<>>))
        ELSE IF found = 0
        THEN Outcome(st, nid, Response("update", req, 404, "notfound", <<>>))
        ELSE IF ~SchemaValid(vehicle)
        THEN Outcome(st, nid, Response("update", req, 500, "internal", <<>>))
        ELSE Outcome([st EXCEPT ![found] = vehicle], nid,
                     Response("update", req, 200, "", <<vehicle>>))

\* GET /:id.  An id that is no ObjectId makes findById throw a CastError.
GetVehicleById(st, nid, req) ==
    LET found == FindById(st, req.id.n)
        validation == validateCoordinates(ParseFloat(st[found].lat),
                                          ParseFloat(st[found].lng))
    IN  IF ~req.id.valid
        THEN Outcome(st, nid, Response("getById", req, 500, "internal", <<>>))
        ELSE IF found = 0
        THEN Outcome(st, nid, Response("getById", req, 404, "notfound", <<>>))
        ELSE IF ~validation.valid
        THEN Outcome(st, nid, Response("getById", req, 400, "validation", <<>>))
        ELSE Outcome(st, nid, Response("getById", req, 200, "", <<st[found]>>))

\* DELETE /:id
DeleteVehicleById(st, nid, req) ==
    LET found == FindById(st, req.id.n)
    IN  IF ~req.id.valid
        THEN Outcome(st, nid, Response("deleteById", req, 500, "internal", <<>>))
        ELSE IF found = 0
        THEN Outcome(st, nid, Response("deleteById", req, 404, "notfound", <<>>))
        ELSE Outcome(Remove(st, found), nid,
                     Response("deleteById", req, 200, "", <<st[found]>>))

\* DELETE /name/:name
DeleteVehicleByName(st, nid, req) ==
    LET found == FindOneByName(st, req.name.s)
    IN  IF found = 0
        THEN Outcome(st, nid, Response("deleteByName", req, 404, "notfound", <<>>))
        ELSE Outcome(Remove(st, found), nid,
                     Response("deleteByName", req, 200, "", <<st[found]>>))

\* Vehicle.find().sort({ lastUpdated: -1 }): the stored documents, latest
\* lastUpdated first; the database fixes no order among equal lastUpdated.
FindSorted(st) ==
    {sq \in [1..Cardinality(DOMAIN st) -> DOMAIN st] :
        /\ \A i, j \in DOMAIN sq : i # j => sq[i] # sq[j]
        /\ \A i, j \in DOMAIN sq :
              i < j => st[sq[i]].lastUpdated >= st[sq[j]].lastUpdated}

TransformVehicleNoFilter(vehicle) ==
    <<[vehicle EXCEPT !.lat = ParseFloat(vehicle.lat),
                      !.lng = ParseFloat(vehicle.lng)]>>

\* The map callback of the list handler: <<>> stands for null.
TransformVehicle(vehicle) ==
    LET lat == ParseFloat(vehicle.lat)
        lng == ParseFloat(vehicle.lng)
    IN  IF ~validateCoordinates(lat, lng).valid THEN <<>>
        ELSE <<[vehicle EXCEPT !.lat = lat, !.lng = lng]>>

RECURSIVE TransformAll(_, _)
TransformAll(st, sq) ==
    IF sq = <<>> THEN <<>>
    ELSE TransformVehicle(st[Head(sq)]) \o TransformAll(st, Tail(sq))

\* GET / (list), for the order sq in which the query returned the documents.
ListVehicles(st, nid, sq) ==
    Outcome(st, nid, ArrayResponse("list", NoReq, 200, TransformAll(st, sq)))

(***************************************************************************)
(* Inputs of the requests.                                                 *)
(***************************************************************************)
NameInputs == {NoName} \cup {Name(s) : s \in Strings}
ParamNames == {Name(s) : s \in Strings \ {<<>>}}

\* The pairs <<lat, lng>> of a request body: a field missing, null, out of
\* range, on the limit, or a numeric string.
CoordInputs ==
    {<<Undef, Num(0)>>, <<Num(0), Undef>>, <<Nul, Num(0)>>,
     <<Num(LatLimit + 1), Num(0)>>, <<Num(0), Num(-LngLimit - 1)>>,
     <<Num(LatLimit), Num(-LngLimit)>>, <<NumStr(0), NumStr(0)>>}

\* The lastUpdated of an update that passes the coordinate check.
LastUpdatedInputs == {Num(0), IsoStr(5), BadStr}

CreateInputs ==
    {Req(name, c[1], c[2], Undef, NoId) : name \in NameInputs, c \in CoordInputs}

UpdateInputs ==
    {Req(name, c[1], c[2], Undef, NoId) : name \in NameInputs, c \in CoordInputs}
    \cup {Req(name, Num(0), Num(0), lastUpdated, NoId) :
            name \in NameInputs, lastUpdated \in LastUpdatedInputs}

IdInputs == {NoId} \cup {ObjectId(n) : n \in 1..MaxId}

\* The values validateCoordinates is applied to on its own.
CoordValues ==
    {Undef, Nul, NaN, Inf(1), Inf(-1), BadStr, NumStr(0), PrefixStr(LatLimit)}
    \cup {Num(n) : n \in {-LngLimit - 1, -LngLimit, -LatLimit - 1, -LatLimit, 0,
                          LatLimit, LatLimit + 1, LngLimit, LngLimit + 1}}

(***************************************************************************)
(* The collection after one create and k - 1 updates of the vehicle "a",   *)
(* all at time 0, before the clock of the run starts: request i carried    *)
(* the coordinates SeedLat(i), SeedLng(i).                                 *)
(***************************************************************************)
SeedLat(i) == Num(i % (LatLimit + 1))
SeedLng(i) == Num(i % (LngLimit + 1))

SeedVehicle(k) ==
    [id |-> 1, name |-> <<"a">>, lat |-> SeedLat(k), lng |-> SeedLng(k),
     lastUpdated |-> 0,
     locationHistory |-> [i \in 1..k |-> HistoryEntry(SeedLat(i), SeedLng(i), 0)]]

SeedStore == 1 :> SeedVehicle(HistoryCap - 1)

NoResponse == Response("none", NoReq, 0, "", <<>>)
NoResult == [called |-> FALSE, parsed |-> FALSE, valid |-> FALSE, error |-> ""]

(***************************************************************************)
(* The idle state of the parts a specification does not exercise.          *)
(***************************************************************************)
NoUsers == [i \in {} |-> 0]
NoUserObject == [f \in {} |-> 0]
NoUserResponse ==
    [op |-> "none",
     req |-> [username |-> NoName, email |-> NoName, password |-> NoName],
     status |-> 0, success |-> "absent", message |-> "", user |-> NoUserObject]
NoAppResponse ==
    [op |-> "none", thrown |-> "", status |-> 0, success |-> "absent",
     error |-> "", message |-> ""]

UserIdle == users = NoUsers /\ uresp = NoUserResponse
AppIdle == nodeEnv = "unset" /\ aresp = NoAppResponse
SimIdle ==
    /\ vehicles = <<>> /\ simPc = "off" /\ inflight = {} /\ ticks = 0
    /\ simLog = {}
ConcIdle == handlers = {} /\ version = [i \in {} |-> 0]

(***************************************************************************)
(* The service: requests are handled one at a time.                        *)
(***************************************************************************)
Init ==
    /\ store \in {EmptyStore, SeedStore}
    /\ nextId = Cardinality(DOMAIN store) + 1
    /\ now = 1
    /\ ops = 0
    /\ queryTrims \in BOOLEAN
    /\ resp = NoResponse
    /\ vargs = <<Undef, Undef>>
    /\ vres = NoResult
    /\ UserIdle /\ AppIdle /\ SimIdle /\ ConcIdle

\* The handler's outcome becomes the state.
Handle(out) ==
    /\ ops < MaxOps
    /\ out.nextId <= MaxId + 1
    /\ store' = out.store
    /\ nextId' = out.nextId
    /\ resp' = out.resp
    /\ ops' = ops + 1
    /\ UNCHANGED <<now, queryTrims, vargs, vres>>
    /\ UNCHANGED <<userVars, appVars, simVars, concVars>>

\* Time passes between requests.
Tick ==
    /\ now < MaxClock
    /\ now' = now + 1
    /\ UNCHANGED <<store, nextId, ops, queryTrims, resp, vargs, vres>>
    /\ UNCHANGED <<userVars, appVars, simVars, concVars>>

Create ==
    \E req \in CreateInputs : Handle(CreateVehicle(store, nextId, now, req))

Update ==
    \E req \in UpdateInputs : Handle(UpdateVehicle(store, nextId, now, req))

GetById ==
    \E id \in IdInputs :
        Handle(GetVehicleById(store, nextId, Req(NoName, Undef, Undef, Undef, id)))

DeleteById ==
    \E id \in IdInputs :
        Handle(DeleteVehicleById(store, nextId,
                                 Req(NoName, Undef, Undef, Undef, id)))

DeleteByName ==
    \E name \in ParamNames :
        Handle(DeleteVehicleByName(store, nextId,
                                   Req(name, Undef, Undef, Undef, NoId)))

List ==
    \E sq \in FindSorted(store) : Handle(ListVehicles(store, nextId, sq))

Next ==
    \/ Tick
    \/ Create
    \/ Update
    \/ GetById
    \/ DeleteById
    \/ DeleteByName
    \/ List

Spec == Init /\ [][Next]_vars

(***************************************************************************)
(* The collection can also be written behind the service's back: the       *)
(* schema puts no range on lat and lng, and the list and get-by-id         *)
(* handlers re-validate what they read.  Corrupt is such a write.          *)
(***************************************************************************)
CorruptValues == {Num(LatLimit + 1), NaN}

Corrupt ==
    /\ ops < MaxOps
    /\ \E i \in DOMAIN store, bad \in CorruptValues :
          store' = [store EXCEPT ![i].lat = bad]
    /\ ops' = ops + 1
    /\ resp' = NoResponse
    /\ UNCHANGED <<now, nextId, queryTrims, vargs, vres>>
    /\ UNCHANGED <<userVars, appVars, simVars, concVars>>

NextExt ==
    \/ Next
    \/ Corrupt

SpecExt == Init /\ [][NextExt]_vars

(***************************************************************************)
(* validateCoordinates on its own, applied to every pair of CoordValues,   *)
(* directly and after parseFloat as the handlers apply it.                 *)
(***************************************************************************)
InitV ==
    /\ store = EmptyStore
    /\ nextId = 1
    /\ now = 1
    /\ ops = 0
    /\ queryTrims = FALSE
    /\ resp = NoResponse
    /\ vargs \in CoordValues \X CoordValues
    /\ vres = NoResult
    /\ UserIdle /\ AppIdle /\ SimIdle /\ ConcIdle

Validate ==
    /\ ~vres.called
    /\ vres' = [called |-> TRUE, parsed |-> FALSE,
                valid |-> validateCoordinates(vargs[1], vargs[2]).valid,
                error |-> validateCoordinates(vargs[1], vargs[2]).error]
    /\ UNCHANGED <<store, now, nextId, ops, queryTrims, resp, vargs>>
    /\ UNCHANGED <<userVars, appVars, simVars, concVars>>

ValidateParsed ==
    /\ ~vres.called
    /\ LET lat == ParseFloat(vargs[1])
           lng == ParseFloat(vargs[2])
       IN  vres' = [called |-> TRUE, parsed |-> TRUE,
                    valid |-> validateCoordinates(lat, lng).valid,
                    error |-> validateCoordinates(lat, lng).error]
    /\ UNCHANGED <<store, now, nextId, ops, queryTrims, resp, vargs>>
    /\ UNCHANGED <<userVars, appVars, simVars, concVars>>

NextV ==
    \/ Validate
    \/ ValidateParsed

SpecV == InitV /\ [][NextV]_vars

(***************************************************************************)
(* Vocabulary of the properties.                                           *)
(***************************************************************************)

\* The step is the handling of one request of kind op; resp' is its response
\* and resp'.req its request.
Handled(op) == ops' = ops + 1 /\ resp'.op = op

\* x is a number, not NaN, within [-limit, limit].
InRange(x, limit) == x.t = "number" /\ -limit <= x.v /\ x.v <= limit

GoodPosition(lat, lng) == InRange(lat, LatLimit) /\ InRange(lng, LngLimit)

\* The request carries lat and lng and they pass the range/NaN check.
GoodCoords(req) ==
    /\ req.lat # Undef
    /\ req.lng # Undef
    /\ GoodPosition(ParseFloat(req.lat), ParseFloat(req.lng))

\* Some stored vehicle is matched by the name filter s.
Matches(st, s) == \E i \in DOMAIN st : st[i].name = CastQueryName(s)

(***************************************************************************)
(* C5: validateCoordinates(lat, lng) returns valid = true if and only if   *)
(* both arguments are numbers, neither is NaN, lat is in [-90, 90] and     *)
(* lng is in [-180, 180], bounds inclusive; non-numbers, NaN and the       *)
(* infinities are invalid.                                                 *)
(***************************************************************************)
C5_ValidIffInRange ==
    (vres.called /\ ~vres.parsed) =>
        (vres.valid <=> GoodPosition(vargs[1], vargs[2]))

C5_Witness ==
    /\ vres.called
    /\ ~vres.parsed
    /\ vres.valid
    /\ vargs = <<Num(-LatLimit), Num(LngLimit)>>

(***************************************************************************)
(* C1, as stated: every update request whose name matches no stored        *)
(* vehicle is answered 404 and leaves the collection unchanged.            *)
(***************************************************************************)
C1_Original ==
    [][(Handled("update") /\ ~Matches(store, resp'.req.name.s))
          => (resp'.status = 404 /\ store' = store)]_vars

(***************************************************************************)
(* C1, amended: an update request whose name matches no stored vehicle     *)
(* leaves the collection unchanged; it is answered 404 when it carries a   *)
(* non-empty name and lat/lng that pass the coordinate check, and 400      *)
(* otherwise.                                                              *)
(***************************************************************************)
C1_UpdateNeverCreates ==
    [][(Handled("update") /\ ~Matches(store, resp'.req.name.s))
          => /\ store' = store
             /\ resp'.status =
                   IF ~NameFalsy(resp'.req.name) /\ GoodCoords(resp'.req)
                   THEN 404 ELSE 400]_vars

\* The vehicle "a" was stored and then deleted, and an update of "a" was
\* answered 404.
C1_Witness ==
    /\ resp.op = "update"
    /\ resp.status = 404
    /\ resp.req.name = Name(<<"a">>)
    /\ ops = 2
    /\ nextId = 2
    /\ store = EmptyStore

(***************************************************************************)
(* C2: every stored locationHistory has between 1 and HistoryCap entries;  *)
(* an update of a vehicle whose history has HistoryCap entries leaves      *)
(* HistoryCap entries: the oldest is removed, the others keep their order  *)
(* and the new entry is last.                                              *)
(***************************************************************************)
HistoryBounded ==
    \A i \in DOMAIN store :
        /\ Len(store[i].locationHistory) >= 1
        /\ Len(store[i].locationHistory) <= HistoryCap

EvictsOldest ==
    (Handled("update") /\ resp'.status = 200) =>
        LET i == resp'.body[1].id
            h == store[i].locationHistory
            h2 == store'[i].locationHistory
        IN  Len(h) = HistoryCap =>
               /\ Len(h2) = HistoryCap
               /\ \A k \in 1..(HistoryCap - 1) : h2[k] = h[k + 1]
               /\ h2[HistoryCap] = HistoryEntry(ParseFloat(resp'.req.lat),
                                                ParseFloat(resp'.req.lng), now)

C2_HistoryCapped == []HistoryBounded /\ [][EvictsOldest]_vars

\* Two updates after the seed: the entry of the create request is gone, the
\* entry of the first seed update is now the oldest.
C2_Witness ==
    /\ resp.op = "update"
    /\ resp.status = 200
    /\ 1 \in DOMAIN store
    /\ Len(store[1].locationHistory) = HistoryCap
    /\ store[1].locationHistory[1] = HistoryEntry(SeedLat(2), SeedLng(2), 0)
    /\ store[1].locationHistory[HistoryCap].timestamp = now

(***************************************************************************)
(* C3, as stated: no two stored vehicles have the same name, and a create  *)
(* whose trimmed name is the name of a stored vehicle fails with           *)
(* ConflictError (400) and leaves the collection unchanged.                *)
(***************************************************************************)
UniqueNames ==
    \A i, j \in DOMAIN store : store[i].name = store[j].name => i = j

\* The trimmed name of the request is the name of a stored vehicle.
NameTaken(st, req) ==
    /\ req.name.t = "string"
    /\ \E i \in DOMAIN st : st[i].name = Trim(req.name.s)

C3_Original ==
    /\ []UniqueNames
    /\ [][(Handled("create") /\ NameTaken(store, resp'.req))
             => /\ resp'.status = 400
                /\ resp'.err = "conflict"
                /\ store' = store]_vars

(***************************************************************************)
(* C3, amended: no two stored vehicles have the same name; a create whose  *)
(* trimmed name is the name of a stored vehicle fails with status 400 and  *)
(* leaves the collection unchanged, with ConflictError when its lat and    *)
(* lng pass the coordinate check and with ValidationError when they do     *)
(* not.                                                                    *)
(***************************************************************************)
C3_UniqueNames ==
    /\ []UniqueNames
    /\ [][(Handled("create") /\ NameTaken(store, resp'.req))
             => /\ resp'.status = 400
                /\ resp'.err = IF GoodCoords(resp'.req) THEN "conflict"
                               ELSE "validation"
                /\ store' = store]_vars

\* A second create of "a", padded with a blank, was refused with
\* ConflictError and one "a" is stored.
C3_Witness ==
    /\ resp.op = "create"
    /\ resp.err = "conflict"
    /\ resp.req.name = Name(<<" ", "a">>)
    /\ Cardinality({i \in DOMAIN store : store[i].name = <<"a">>}) = 1

(***************************************************************************)
(* C4: the position and every history entry of every stored vehicle have   *)
(* -90 <= lat <= 90 and -180 <= lng <= 180, neither NaN; so the list       *)
(* handler drops no vehicle and get-by-id rejects none.                    *)
(***************************************************************************)
BodyIds(body) == {body[k].id : k \in DOMAIN body}

C4_StoredCoordinatesValid ==
    /\ \A i \in DOMAIN store :
          /\ GoodPosition(store[i].lat, store[i].lng)
          /\ \A k \in DOMAIN store[i].locationHistory :
                GoodPosition(store[i].locationHistory[k].lat,
                             store[i].locationHistory[k].lng)
    /\ resp.op = "list" => BodyIds(resp.body) = DOMAIN store
    /\ resp.op = "getById" => resp.status # 400

\* Two vehicles are stored, one of them on the limits, and the list
\* returned both.
C4_Witness ==
    /\ resp.op = "list"
    /\ Len(resp.body) = 2
    /\ \E i \in DOMAIN store :
          store[i].lat = Num(LatLimit) /\ store[i].lng = Num(-LngLimit)

(***************************************************************************)
(* C6: a create with name, lat or lng missing, or with coordinates that    *)
(* fail the range/NaN check, fails with ValidationError (400) and stores   *)
(* nothing.                                                                *)
(***************************************************************************)
C6_CreateValidates ==
    [][(Handled("create")
          /\ \/ resp'.req.name.t = "undefined"
             \/ ~GoodCoords(resp'.req))
          => /\ resp'.status = 400
             /\ resp'.err = "validation"
             /\ store' = store]_vars

C6_Witness ==
    /\ resp.op = "create"
    /\ resp.status = 400
    /\ resp.err = "validation"
    /\ resp.req.name = Name(<<"a", "a">>)
    /\ resp.req.lat = Num(LatLimit + 1)
    /\ \A i \in DOMAIN store : store[i].name # <<"a", "a">>

(***************************************************************************)
(* Create followed by get-by-id, for the name stored(n) that the claim     *)
(* expects for a request name n.  Coordinates are compared as numbers.     *)
(***************************************************************************)
OneEntryAt(history, req) ==
    /\ Len(history) = 1
    /\ history[1].lat = ParseFloat(req.lat)
    /\ history[1].lng = ParseFloat(req.lng)

IsCreated(vehicle, req, stored(_)) ==
    /\ vehicle.name = stored(req.name.s)
    /\ vehicle.lat = ParseFloat(req.lat)
    /\ vehicle.lng = ParseFloat(req.lng)
    /\ OneEntryAt(vehicle.locationHistory, req)

CreatePersistsOne(stored(_)) ==
    (Handled("create") /\ resp'.status = 201) =>
        \E id \in DOMAIN store' \ DOMAIN store :
            /\ DOMAIN store' = DOMAIN store \cup {id}
            /\ \A j \in DOMAIN store : store'[j] = store[j]
            /\ IsCreated(store'[id], resp'.req, stored)
            /\ resp'.body = <<store'[id]>>

GetAfterCreate(stored(_)) ==
    (/\ resp.op = "create"
     /\ resp.status = 201
     /\ Handled("getById")
     /\ resp'.req.id = ObjectId(resp.body[1].id))
        => /\ resp'.status = 200
           /\ Len(resp'.body) = 1
           /\ IsCreated(resp'.body[1], resp.req, stored)

Same(s) == s

(***************************************************************************)
(* C7, as stated: a successful create with name n and coordinates          *)
(* (lat, lng) stores exactly one new vehicle with one history entry at     *)
(* (lat, lng), and a get-by-id of the returned id right after it answers   *)
(* 200 with name n, position (lat, lng) and that entry.                    *)
(***************************************************************************)
C7_Original ==
    [][CreatePersistsOne(Same) /\ GetAfterCreate(Same)]_vars

(***************************************************************************)
(* C7, amended: as stated, except that the name stored and returned is n   *)
(* with leading and trailing whitespace removed.                           *)
(***************************************************************************)
C7_RoundTrip ==
    [][CreatePersistsOne(Trim) /\ GetAfterCreate(Trim)]_vars

\* The second request read back the vehicle the first request created.
C7_Witness ==
    /\ resp.op = "getById"
    /\ resp.status = 200
    /\ ops = 2
    /\ resp.req.id = ObjectId(nextId - 1)
    /\ Len(resp.body[1].locationHistory) = 1
    /\ resp.body[1].lat = Num(LatLimit)

(***************************************************************************)
(* C8, as stated: a successful update sets the position to the submitted   *)
(* (lat, lng), sets lastUpdated to the supplied lastUpdated if one was     *)
(* given and to the current time otherwise, and appends one history entry  *)
(* with the submitted coordinates; so the newest history entry is at the   *)
(* vehicle's position.                                                     *)
(***************************************************************************)
Last(h) == h[Len(h)]

NewestEntryAtPosition ==
    \A i \in DOMAIN store :
        /\ Last(store[i].locationHistory).lat = store[i].lat
        /\ Last(store[i].locationHistory).lng = store[i].lng

UpdateApplies ==
    (Handled("update") /\ resp'.status = 200) =>
        LET i == resp'.body[1].id
            req == resp'.req
            h == store[i].locationHistory
            h2 == store'[i].locationHistory
        IN  /\ store'[i].lat = ParseFloat(req.lat)
            /\ store'[i].lng = ParseFloat(req.lng)
            /\ store'[i].lastUpdated =
                  IF req.lastUpdated # Undef THEN NewDate(req.lastUpdated)
                  ELSE now
            /\ Len(h2) = IF Len(h) < HistoryCap THEN Len(h) + 1 ELSE HistoryCap
            /\ Last(h2).lat = ParseFloat(req.lat)
            /\ Last(h2).lng = ParseFloat(req.lng)

C8_Original == []NewestEntryAtPosition /\ [][UpdateApplies]_vars

(***************************************************************************)
(* C9, as stated: a delete by id or by name of an absent vehicle answers   *)
(* 404 and leaves the collection unchanged; otherwise exactly that vehicle *)
(* is removed and returned.  After a successful delete the list does not   *)
(* contain the vehicle and a repeated delete answers 404.                  *)
(***************************************************************************)
DeleteOutcome(target) ==
    IF target = 0
    THEN resp'.status = 404 /\ store' = store
    ELSE /\ resp'.status = 200
         /\ resp'.body = <<store[target]>>
         /\ DOMAIN store' = DOMAIN store \ {target}
         /\ \A j \in DOMAIN store' : store'[j] = store[j]

DeleteByIdStep ==
    Handled("deleteById") =>
        DeleteOutcome(IF resp'.req.id.valid /\ resp'.req.id.n \in DOMAIN store
                      THEN resp'.req.id.n ELSE 0)

DeleteByNameStep ==
    Handled("deleteByName") =>
        \/ ~Matches(store, resp'.req.name.s) /\ DeleteOutcome(0)
        \/ \E i \in DOMAIN store :
              store[i].name = CastQueryName(resp'.req.name.s) /\ DeleteOutcome(i)

AfterDelete ==
    (resp.op \in {"deleteById", "deleteByName"} /\ resp.status = 200) =>
        /\ Handled("list") => resp.body[1].id \notin BodyIds(resp'.body)
        /\ (Handled(resp.op) /\ resp'.req = resp.req) => resp'.status = 404

C9_Original == [][DeleteByIdStep /\ DeleteByNameStep /\ AfterDelete]_vars

(***************************************************************************)
(* C10: the list handler answers 200 with the stored vehicles whose        *)
(* coordinates pass validateCoordinates, each once, latest lastUpdated     *)
(* first; a stored record with invalid coordinates is left out and does    *)
(* not make the call fail.                                                 *)
(***************************************************************************)
ListStep ==
    Handled("list") =>
        LET body == resp'.body
        IN  /\ resp'.status = 200
            /\ BodyIds(body) =
                  {i \in DOMAIN store : GoodPosition(store[i].lat, store[i].lng)}
            /\ \A k, m \in DOMAIN body :
                  k < m => /\ body[k].id # body[m].id
                           /\ body[k].lastUpdated >= body[m].lastUpdated
            /\ \A k \in DOMAIN body :
                  /\ body[k].name = store[body[k].id].name
                  /\ body[k].lastUpdated = store[body[k].id].lastUpdated

C10_ListSortedAndFiltered == [][ListStep]_vars

\* Two vehicles are stored, one with coordinates that fail the check; the
\* list answered 200 with the other one only.
C10_Witness ==
    /\ resp.op = "list"
    /\ resp.status = 200
    /\ Len(resp.body) = 1
    /\ Cardinality(DOMAIN store) = 2
    /\ \E i \in DOMAIN store : ~GoodPosition(store[i].lat, store[i].lng)

(***************************************************************************)
(* The user service of src/backend/routes/user.js.  The User model is not  *)
(* among the sources: a stored user is [id, username, email, password],    *)
(* password holding the hash, and save() accepts what the handler checked. *)
(* The strings of a request are [t, s] like vehicle names.                 *)
(***************************************************************************)
MinPasswordLen == 6
MinUsernameLen == 3

Rep(c, n) == [i \in 1..n |-> c]

\* bcrypt.hash(password, saltRounds) with the salt bcrypt drew: the hash is
\* a string that starts with "$" and the salt.
BcryptHash(password, salt) == <<"$", salt>> \o password

\* bcrypt.compare(password, hash)
BcryptCompare(password, hash) ==
    /\ Len(hash) >= 2
    /\ hash[1] = "$"
    /\ SubSeq(hash, 3, Len(hash)) = password

UserReq(username, email, password) ==
    [username |-> username, email |-> email, password |-> password]

\* The object { _id, username, email } of a successful response.
PublicUserWithPassword(user) ==
    [id |-> user.id, username |-> user.username, email |-> user.email,
     password |-> user.password]

PublicUser(user) ==
    [id |-> user.id, username |-> user.username, email |-> user.email]

\* res.status(status).json({ success, message, user })
UserResponse(op, req, status, success, message, user) ==
    [op |-> op, req |-> req, status |-> status, success |-> success,
     message |-> message, user |-> user]

UserOutcome(us, r) == [users |-> us, uresp |-> r]

\* The documents User.findOne({ $or: [{ username: u }, { email: e }] }) can
\* return: any document matching one of the two filters, 0 if none does.
FindUserByEither(us, u, e) ==
    LET hits == {i \in DOMAIN us : us[i].username = u \/ us[i].email = e}
    IN  IF hits = {} THEN {0} ELSE hits

\* User.findOne({ username: u })
FindUserByUsername(us, u) ==
    LET hits == {i \in DOMAIN us : us[i].username = u}
    IN  IF hits = {} THEN {0} ELSE hits

\* POST /register, for the document existingUser that findOne returned and
\* the salt bcrypt drew.
RegisterUserAnyLength(us, req, existingUser, salt) ==
    LET user == [id |-> Cardinality(DOMAIN us) + 1,
                 username |-> req.username.s, email |-> req.email.s,
                 password |-> BcryptHash(req.password.s, salt)]
    IN  IF NameFalsy(req.username) \/ NameFalsy(req.email)
           \/ NameFalsy(req.password)
        THEN UserOutcome(us, UserResponse("register", req, 400, "false",
                "Please provide username, email, and password", NoUserObject))
        ELSE IF existingUser # 0
        THEN UserOutcome(us, UserResponse("register", req, 400, "false",
                IF us[existingUser].username = req.username.s
                THEN "Username already exists" ELSE "Email already exists",
                NoUserObject))
        ELSE UserOutcome(us @@ (user.id :> user),
                UserResponse("register", req, 201, "true",
                    "User registered successfully", PublicUser(user)))

RegisterUserNoCheck(us, req, existingUser, salt) ==
    LET user == [id |-> Cardinality(DOMAIN us) + 1,
                 username |-> req.username.s, email |-> req.email.s,
                 password |-> BcryptHash(req.password.s, salt)]
    IN  IF NameFalsy(req.username) \/ NameFalsy(req.email)
           \/ NameFalsy(req.password)
        THEN UserOutcome(us, UserResponse("register", req, 400, "false",
                "Please provide username, email, and password", NoUserObject))
        ELSE IF Len(req.password.s) < MinPasswordLen
        THEN UserOutcome(us, UserResponse("register", req, 400, "false",
                "Password must be at least 6 characters long", NoUserObject))
        ELSE IF Len(req.username.s) < MinUsernameLen
        THEN UserOutcome(us, UserResponse("register", req, 400, "false",
                "Username must be at least 3 characters long", NoUserObject))
        ELSE UserOutcome(us @@ (user.id :> user),
                UserResponse("register", req, 201, "true",
                    "User registered successfully", PublicUser(user)))

RegisterUser(us, req, existingUser, salt) ==
    LET user == [id |-> Cardinality(DOMAIN us) + 1,
                 username |-> req.username.s, email |-> req.email.s,
                 password |-> BcryptHash(req.password.s, salt)]
    IN  IF NameFalsy(req.username) \/ NameFalsy(req.email)
           \/ NameFalsy(req.password)
        THEN UserOutcome(us, UserResponse("register", req, 400, "false",
                "Please provide username, email, and password", NoUserObject))
        ELSE IF Len(req.password.s) < MinPasswordLen
        THEN UserOutcome(us, UserResponse("register", req, 400, "false",
                "Password must be at least 6 characters long", NoUserObject))
        ELSE IF Len(req.username.s) < MinUsernameLen
        THEN UserOutcome(us, UserResponse("register", req, 400, "false",
                "Username must be at least 3 characters long", NoUserObject))
        ELSE IF existingUser # 0
        THEN UserOutcome(us, UserResponse("register", req, 400, "false",
                IF us[existingUser].username = req.username.s
                THEN "Username already exists" ELSE "Email already exists",
                NoUserObject))
        ELSE UserOutcome(us @@ (user.id :> user),
                UserResponse("register", req, 201, "true",
                    "User registered successfully", PublicUser(user)))

\* POST /login, for the document user that findOne returned.
LoginUserTellsWhich(us, req, user) ==
    IF NameFalsy(req.username) \/ NameFalsy(req.password)
    THEN UserOutcome(us, UserResponse("login", req, 400, "false",
            "Please provide username and password", NoUserObject))
    ELSE IF user = 0
    THEN UserOutcome(us, UserResponse("login", req, 401, "false",
            "User not found", NoUserObject))
    ELSE IF ~BcryptCompare(req.password.s, us[user].password)
    THEN UserOutcome(us, UserResponse("login", req, 401, "false",
            "Invalid username or password", NoUserObject))
    ELSE UserOutcome(us, UserResponse("login", req, 200, "true",
            "Login successful", PublicUser(us[user])))

LoginUser(us, req, user) ==
    IF NameFalsy(req.username) \/ NameFalsy(req.password)
    THEN UserOutcome(us, UserResponse("login", req, 400, "false",
            "Please provide username and password", NoUserObject))
    ELSE IF user = 0
    THEN UserOutcome(us, UserResponse("login", req, 401, "false",
            "Invalid username or password", NoUserObject))
    ELSE IF ~BcryptCompare(req.password.s, us[user].password)
    THEN UserOutcome(us, UserResponse("login", req, 401, "false",
            "Invalid username or password", NoUserObject))
    ELSE UserOutcome(us, UserResponse("login", req, 200, "true",
            "Login successful", PublicUser(us[user])))

\* GET /profile/:username, for the document user that findOne returned.
GetUserProfile(us, req, user) ==
    IF user = 0
    THEN UserOutcome(us, UserResponse("profile", req, 404, "false",
            "User not found", NoUserObject))
    ELSE UserOutcome(us, UserResponse("profile", req, 200, "true", "",
            PublicUser(us[user])))

(***************************************************************************)
(* Inputs of the user requests: a username one character short of the      *)
(* minimum, usernames of the minimum length, one of them spelled like an   *)
(* email; passwords one short of the minimum and of the minimum length.    *)
(***************************************************************************)
UsernameInputs ==
    {NoName, Name(<<>>), Name(Rep("u", MinUsernameLen - 1)),
     Name(Rep("u", MinUsernameLen)), Name(Rep("e", MinUsernameLen))}
EmailInputs ==
    {NoName, Name(Rep("e", MinUsernameLen)), Name(Rep("f", MinUsernameLen))}
PasswordInputs ==
    {NoName, Name(Rep("p", MinPasswordLen - 1)), Name(Rep("p", MinPasswordLen)),
     Name(Rep("q", MinPasswordLen))}
Salts == {"s", "t"}

InitUser ==
    /\ store = EmptyStore
    /\ nextId = 1
    /\ now = 1
    /\ ops = 0
    /\ queryTrims = FALSE
    /\ resp = NoResponse
    /\ vargs = <<Undef, Undef>>
    /\ vres = NoResult
    /\ UserIdle /\ AppIdle /\ SimIdle /\ ConcIdle

\* The handler's outcome becomes the state.
HandleUser(out) ==
    /\ ops < MaxOps
    /\ users' = out.users
    /\ uresp' = out.uresp
    /\ ops' = ops + 1
    /\ UNCHANGED <<store, now, nextId, queryTrims, resp, vargs, vres>>
    /\ UNCHANGED <<appVars, simVars, concVars>>

Register ==
    \E username \in UsernameInputs, email \in EmailInputs,
       password \in PasswordInputs, salt \in Salts :
        \E existingUser \in FindUserByEither(users, username.s, email.s) :
            HandleUser(RegisterUser(users, UserReq(username, email, password),
                                    existingUser, salt))

Login ==
    \E username \in UsernameInputs \cup EmailInputs, password \in PasswordInputs :
        \E user \in FindUserByEither(users, username.s, username.s) :
            HandleUser(LoginUser(users, UserReq(username, NoName, password), user))

GetProfile ==
    \E username \in UsernameInputs \ {NoName, Name(<<>>)} :
        \E user \in FindUserByUsername(users, username.s) :
            HandleUser(GetUserProfile(users, UserReq(username, NoName, NoName),
                                      user))

NextUser ==
    \/ Register
    \/ Login
    \/ GetProfile

SpecUser == InitUser /\ [][NextUser]_vars

(***************************************************************************)
(* Vocabulary of the user properties.                                      *)
(***************************************************************************)

\* The step is the handling of one user request of kind op.
HandledUser(op) == ops' = ops + 1 /\ uresp'.op = op

UsernameHeld(us, u) == \E i \in DOMAIN us : us[i].username = u
EmailHeld(us, e) == \E i \in DOMAIN us : us[i].email = e

\* What a refused login shows to the caller.
Shown(r) == <<r.status, r.success, r.message, DOMAIN r.user>>

RegisterRefusesMalformed ==
    LET req == uresp'.req
    IN  (/\ HandledUser("register")
         /\ \/ NameFalsy(req.username) \/ NameFalsy(req.email)
            \/ NameFalsy(req.password)
            \/ Len(req.password.s) < 6
            \/ Len(req.username.s) < 3)
           => /\ uresp'.status = 400
              /\ uresp'.success = "false"
              /\ uresp'.message \notin
                    {"Username already exists", "Email already exists"}
              /\ users' = users

RegisterAcceptsBoundary ==
    LET req == uresp'.req
    IN  (/\ HandledUser("register")
         /\ ~NameFalsy(req.username) /\ ~NameFalsy(req.email)
         /\ ~NameFalsy(req.password)
         /\ Len(req.username.s) >= 3
         /\ Len(req.password.s) = 6
         /\ ~UsernameHeld(users, req.username.s)
         /\ ~EmailHeld(users, req.email.s))
           => /\ uresp'.status = 201
              /\ \E id \in DOMAIN users' \ DOMAIN users :
                    /\ DOMAIN users' = DOMAIN users \cup {id}
                    /\ \A j \in DOMAIN users : users'[j] = users[j]
                    /\ users'[id].username = req.username.s
                    /\ users'[id].email = req.email.s

C13_RegisterBoundary ==
    [][RegisterRefusesMalformed /\ RegisterAcceptsBoundary]_vars

\* A second user was registered with a password of exactly 6 characters.
C13_Witness ==
    /\ uresp.op = "register"
    /\ uresp.status = 201
    /\ Len(uresp.req.password.s) = 6
    /\ Cardinality(DOMAIN users) = 2

(***************************************************************************)
(* C14, as stated: a register request whose username or email is held by   *)
(* a stored user fails with ConflictError (400) and leaves the users       *)
(* unchanged; 'Username already exists' is sent only if the username is    *)
(* held and 'Email already exists' only if the email is held; usernames    *)
(* are pairwise distinct and so are emails.                                *)
(***************************************************************************)
UsersUnique ==
    \A i, j \in DOMAIN users :
        (users[i].username = users[j].username \/ users[i].email = users[j].email)
            => i = j

ConflictMessageTrue ==
    LET req == uresp'.req
    IN  HandledUser("register") =>
           /\ uresp'.message = "Username already exists"
                 => UsernameHeld(users, req.username.s)
           /\ uresp'.message = "Email already exists"
                 => EmailHeld(users, req.email.s)

\* The username or the email of the request is held by a stored user.
Taken(us, req) ==
    \/ req.username.t = "string" /\ UsernameHeld(us, req.username.s)
    \/ req.email.t = "string" /\ EmailHeld(us, req.email.s)

C14_Original ==
    /\ []UsersUnique
    /\ [][/\ ConflictMessageTrue
          /\ (HandledUser("register") /\ Taken(users, uresp'.req))
                => /\ uresp'.status = 400
                   /\ uresp'.message \in
                         {"Username already exists", "Email already exists"}
                   /\ users' = users]_vars

(***************************************************************************)
(* C14, amended: as stated, for a request that carries username, email     *)
(* and password, a password of at least 6 and a username of at least 3     *)
(* characters; a request that fails these checks is refused with           *)
(* ValidationError (400), users unchanged, also when its username or       *)
(* email is held.                                                          *)
(***************************************************************************)
WellFormedRegister(req) ==
    /\ ~NameFalsy(req.username) /\ ~NameFalsy(req.email)
    /\ ~NameFalsy(req.password)
    /\ Len(req.password.s) >= 6
    /\ Len(req.username.s) >= 3

C14_RegisterConflict ==
    /\ []UsersUnique
    /\ [][/\ ConflictMessageTrue
          /\ (HandledUser("register") /\ Taken(users, uresp'.req))
                => /\ uresp'.status = 400
                   /\ users' = users
                   /\ WellFormedRegister(uresp'.req) <=>
                         uresp'.message \in {"Username already exists",
                                             "Email already exists"}]_vars

\* A request with a fresh username and a held email was refused with the
\* email message.
C14_Witness ==
    /\ uresp.op = "register"
    /\ uresp.status = 400
    /\ uresp.message = "Email already exists"
    /\ ~UsernameHeld(users, uresp.req.username.s)
    /\ EmailHeld(users, uresp.req.email.s)

(***************************************************************************)
(* C15: no response of register, login or profile carries the password or  *)
(* its hash: a successful response exposes the user's id, username and     *)
(* email and nothing else; what is stored as a user's password is not the  *)
(* plaintext that was submitted.                                           *)
(***************************************************************************)
UserMessages ==
    {"", "Please provide username, email, and password",
     "Password must be at least 6 characters long",
     "Username must be at least 3 characters long",
     "Username already exists", "Email already exists",
     "User registered successfully", "Please provide username and password",
     "Invalid username or password", "Login successful", "User not found"}

ResponseIsPublic ==
    /\ uresp.message \in UserMessages
    /\ IF uresp.status \in {200, 201}
       THEN /\ DOMAIN uresp.user = {"id", "username", "email"}
            /\ uresp.user.id \in DOMAIN users
            /\ uresp.user.username = users[uresp.user.id].username
            /\ uresp.user.email = users[uresp.user.id].email
       ELSE DOMAIN uresp.user = {}

StoredPasswordsHashed ==
    \A i \in DOMAIN users, password \in PasswordInputs :
        users[i].password # password.s

C15_NoPasswordLeaves ==
    /\ [](ResponseIsPublic /\ StoredPasswordsHashed)
    /\ [][HandledUser("register") /\ uresp'.status = 201
            => /\ users'[uresp'.user.id].password # uresp'.req.password.s
               /\ BcryptCompare(uresp'.req.password.s,
                                users'[uresp'.user.id].password)]_vars

\* A login with the right password was answered with the public fields.
C15_Witness ==
    /\ uresp.op = "login"
    /\ uresp.status = 200
    /\ DOMAIN uresp.user = {"id", "username", "email"}
    /\ BcryptCompare(uresp.req.password.s, users[uresp.user.id].password)

(***************************************************************************)
(* The application: the endpoints and the final handlers of index.js.      *)
(***************************************************************************)

\* What process.env.NODE_ENV can be when the server starts.
NodeEnvs == {"unset", "production", "development", "test"}

\* The message of an error that a middleware hands to next(err): the JSON
\* body parser on a malformed or an oversized body.
ErrMessages == {"Unexpected token } in JSON at position 9",
                "request entity too large"}

\* Method and url of requests that no route matches.
UnmatchedRequests == {"GET /", "POST /api/vehicles/move"}

\* thrown is the message of the error that reached the handler, "" if none.
AppResponse(op, thrown, status, success, error, message) ==
    [op |-> op, thrown |-> thrown, status |-> status, success |-> success,
     error |-> error, message |-> message]

\* app.get('/health')
HealthCheck ==
    AppResponse("health", "", 200, "absent", "",
                "Vehicle Tracking Server is running")

\* app.get('/test'); res.json sends status 200.
TestEndpoint ==
    AppResponse("test", "", 200, "absent", "", "Backend server is working!")

\* app.use('*')
RouteNotFound(request) ==
    AppResponse("notFound", "", 404, "false", "Route not found",
                "Cannot " \o request)

\* app.use((err, req, res, next) => ...)
ErrorHandler(env, errMessage) ==
    AppResponse("error", errMessage, 500, "false", "Internal Server Error",
                IF env = "production" THEN "Something went wrong!"
                ELSE errMessage)

\* One request from each state a running server starts it in: with or
\* without a stored vehicle, with or without a registered user.
SeedUsers ==
    1 :> [id |-> 1, username |-> <<"u", "u", "u">>, email |-> <<"e", "e", "e">>,
          password |-> BcryptHash(Rep("p", MinPasswordLen), "s")]

InitApi ==
    /\ store \in {EmptyStore, SeedStore}
    /\ nextId = Cardinality(DOMAIN store) + 1
    /\ now = 1
    /\ ops = 0
    /\ queryTrims \in BOOLEAN
    /\ resp = NoResponse
    /\ vargs = <<Undef, Undef>>
    /\ vres = NoResult
    /\ users \in {NoUsers, SeedUsers}
    /\ uresp = NoUserResponse
    /\ nodeEnv \in NodeEnvs
    /\ aresp = NoAppResponse
    /\ SimIdle /\ ConcIdle

\* The response becomes the state.
HandleApp(r) ==
    /\ ops < MaxOps
    /\ aresp' = r
    /\ ops' = ops + 1
    /\ UNCHANGED <<store, now, nextId, queryTrims, resp, vargs, vres>>
    /\ UNCHANGED <<userVars, nodeEnv, simVars, concVars>>

Health == HandleApp(HealthCheck)

Test == HandleApp(TestEndpoint)

NotFound == \E request \in UnmatchedRequests : HandleApp(RouteNotFound(request))

Unhandled ==
    \E errMessage \in ErrMessages : HandleApp(ErrorHandler(nodeEnv, errMessage))

\* The request that is followed is the first one.
NextApi ==
    /\ ops = 0
    /\ \/ Create \/ Update \/ GetById \/ DeleteById \/ DeleteByName \/ List
       \/ Register \/ Login \/ GetProfile
       \/ Health \/ Test \/ NotFound \/ Unhandled

SpecApi == InitApi /\ [][NextApi]_vars

(***************************************************************************)
(* C16: an error that reaches the global error handler is answered with    *)
(* status 500 and a generic message; the error's own message is in the     *)
(* response only when the environment mode is development, in every other  *)
(* mode (production, unset, any other value) it is hidden.                 *)
(***************************************************************************)
C16_Original ==
    aresp.op = "error" =>
        /\ aresp.status = 500
        /\ aresp.error = "Internal Server Error"
        /\ nodeEnv # "development" =>
              /\ aresp.message # aresp.thrown
              /\ aresp.message = "Something went wrong!"

(***************************************************************************)
(* C11, as stated: every response of the backend, of every endpoint, on    *)
(* success and on failure, is an object with a boolean success, true on    *)
(* success and false on failure, besides its payload or its error or       *)
(* message string.                                                         *)
(***************************************************************************)
Flag(status) == IF status \in 200..299 THEN "true" ELSE "false"

VehicleFlagged ==
    /\ resp.success = Flag(resp.status)
    /\ resp.success = "false" => resp.err # ""

UserFlagged ==
    /\ uresp.success = Flag(uresp.status)
    /\ uresp.success = "false" => uresp.message # ""

AppFlagged ==
    /\ aresp.success = Flag(aresp.status)
    /\ aresp.success = "false" => aresp.error # "" /\ aresp.message # ""

C11_Original ==
    /\ resp.op # "none" => VehicleFlagged
    /\ uresp.op # "none" => UserFlagged
    /\ aresp.op # "none" => AppFlagged

(***************************************************************************)
(* C11, amended: as stated for every response but three, which are sent    *)
(* with status 200 and without a success field: the list of GET            *)
(* /api/vehicles, which is the bare array of the vehicles, and the         *)
(* objects of GET /health and GET /test.                                   *)
(***************************************************************************)
C11_SuccessFlag ==
    /\ resp.op \notin {"none", "list"} => VehicleFlagged
    /\ resp.op = "list" => resp.status = 200 /\ resp.success = "absent"
    /\ uresp.op # "none" => UserFlagged
    /\ aresp.op \notin {"none", "health", "test"} => AppFlagged
    /\ aresp.op \in {"health", "test"} =>
          aresp.status = 200 /\ aresp.success = "absent"

\* An update of an unknown vehicle was refused with success: false.
C11_Witness ==
    /\ resp.op = "update"
    /\ resp.status = 404
    /\ resp.success = "false"
    /\ resp.err = "notfound"

(***************************************************************************)
(* The simulator (src/unnamed/part_000) against the vehicle service.       *)
(* vehicles is its cache, simPc where the process is ("off", "running",    *)
(* "exited"), inflight its update requests that have no response or whose  *)
(* response has not been received yet (status 0: not yet served), ticks    *)
(* the number of runs of updateVehiclePositions, simLog what               *)
(* console.error has written.                                              *)
(***************************************************************************)
MaxTicks == 2

\* validateCoordinates of the simulator.
simValidateCoordinates(lat, lng) ==
    IF IsNaN(lat) \/ IsNaN(lng) THEN [valid |-> FALSE]
    ELSE IF NumLT(lat, -LatLimit) \/ NumGT(lat, LatLimit) THEN [valid |-> FALSE]
    ELSE IF NumLT(lng, -LngLimit) \/ NumGT(lng, LngLimit) THEN [valid |-> FALSE]
    ELSE [valid |-> TRUE]

\* The offsets <<latOffset, lngOffset>> that Math.random() can give, in
\* units of the grid.
Offsets == {<<1, 1>>, <<-1, 0>>}

\* generateRandomMovement(baseLat, baseLng), for the offsets drawn.
generateRandomMovement(baseLat, baseLng, offset) ==
    LET newLat == Num(baseLat.v + offset[1])
        newLng == Num(baseLng.v + offset[2])
        validation == simValidateCoordinates(newLat, newLng)
    IN  IF ~validation.valid THEN [lat |-> baseLat, lng |-> baseLng]
        ELSE [lat |-> newLat, lng |-> newLng]

\* What main keeps of a vehicle of the response: lat and lng go through
\* parseFloat and are kept when they are numbers.
Cached(v) ==
    LET lat == ParseFloat(v.lat)
        lng == ParseFloat(v.lng)
    IN  IF IsNaN(lat) \/ IsNaN(lng)
        THEN [name |-> v.name, lat |-> v.lat, lng |-> v.lng]
        ELSE [name |-> v.name, lat |-> lat, lng |-> lng]

\* The request that updateVehiclePositions posts for vehicles[index].
UpdateRequest(vs, index, offset, clock, tick) ==
    LET moved == generateRandomMovement(vs[index].lat, vs[index].lng, offset)
    IN  [tick |-> tick, index |-> index, status |-> 0,
         req |-> Req(Name(vs[index].name), moved.lat, moved.lng,
                     IsoStr(clock), NoId)]

\* A simulator that overwrites its cache whatever the backend answered.
AfterResponseAlways(vs, r) ==
    [vs EXCEPT ![r.index].lat = r.req.lat, ![r.index].lng = r.req.lng]

\* The continuation of the callback after await axios.post: axios rejects
\* on a status outside 2xx and the catch block only logs.
AfterResponse(vs, r) ==
    IF r.status \in 200..299
    THEN [vs EXCEPT ![r.index].lat = r.req.lat, ![r.index].lng = r.req.lng]
    ELSE vs

\* The names of this specification have no whitespace: trimming a query
\* filter or not gives the same documents.
InitSim ==
    /\ store = SeedStore
    /\ nextId = Cardinality(DOMAIN store) + 1
    /\ now = 1
    /\ ops = 0
    /\ queryTrims = FALSE
    /\ resp = NoResponse
    /\ vargs = <<Undef, Undef>>
    /\ vres = NoResult
    /\ UserIdle /\ AppIdle /\ SimIdle /\ ConcIdle

\* Another client adds the vehicle "b", on the limits of the grid.
EnvCreate ==
    Handle(CreateVehicle(store, nextId, now,
                         Req(Name(<<"b">>), Num(LatLimit), Num(LngLimit),
                             Undef, NoId)))

\* Another client deletes a vehicle by name.
EnvDelete ==
    \E name \in {<<"a">>, <<"b">>} :
        Handle(DeleteVehicleByName(store, nextId,
                                   Req(Name(name), Undef, Undef, Undef, NoId)))

\* main(): one GET /api/vehicles; the process exits when the list is empty.
SimMain ==
    /\ simPc = "off"
    /\ \E sq \in FindSorted(store) :
          LET data == ListVehicles(store, nextId, sq).resp.body
          IN  /\ vehicles' = [i \in 1..Len(data) |-> Cached(data[i])]
              /\ simPc' = IF Len(data) = 0 THEN "exited" ELSE "running"
    /\ UNCHANGED <<store, now, nextId, ops, queryTrims, resp, vargs, vres>>
    /\ UNCHANGED <<inflight, ticks, simLog>>
    /\ UNCHANGED <<userVars, appVars, concVars>>

\* updateVehiclePositions(), run by the timers of startSimulation: forEach
\* starts the callback of every cached vehicle, and each callback runs up
\* to its await, that is, it posts its request.
SimTick ==
    /\ simPc = "running"
    /\ ticks < MaxTicks
    /\ \E offsets \in [1..Len(vehicles) -> Offsets] :
          inflight' = inflight \cup
              {UpdateRequest(vehicles, i, offsets[i], now, ticks + 1) :
                  i \in 1..Len(vehicles)}
    /\ ticks' = ticks + 1
    /\ UNCHANGED <<store, now, nextId, ops, queryTrims, resp, vargs, vres>>
    /\ UNCHANGED <<vehicles, simPc, simLog>>
    /\ UNCHANGED <<userVars, appVars, concVars>>

\* The backend handles one of the simulator's requests; its response is
\* on the way back to the simulator.
Serve ==
    \E r \in inflight :
        /\ r.status = 0
        /\ LET out == UpdateVehicle(store, nextId, now, r.req)
           IN  /\ store' = out.store
               /\ nextId' = out.nextId
               /\ inflight' = (inflight \ {r}) \cup
                                 {[r EXCEPT !.status = out.resp.status]}
        /\ UNCHANGED <<now, ops, queryTrims, resp, vargs, vres>>
        /\ UNCHANGED <<vehicles, simPc, ticks, simLog>>
        /\ UNCHANGED <<userVars, appVars, concVars>>

\* The response reaches the simulator and the callback goes on.
SimReceive ==
    \E r \in inflight :
        /\ r.status # 0
        /\ simPc = "running"
        /\ inflight' = inflight \ {r}
        /\ vehicles' = AfterResponse(vehicles, r)
        /\ simLog' = IF r.status \in 200..299 THEN simLog
                     ELSE simLog \cup {[tick |-> r.tick, index |-> r.index,
                                        status |-> r.status]}
        /\ UNCHANGED <<store, now, nextId, ops, queryTrims, resp, vargs, vres>>
        /\ UNCHANGED <<simPc, ticks>>
        /\ UNCHANGED <<userVars, appVars, concVars>>

NextSim ==
    \/ EnvCreate
    \/ EnvDelete
    \/ SimMain
    \/ SimTick
    \/ Serve
    \/ SimReceive

SpecSim == InitSim /\ [][NextSim]_vars

(***************************************************************************)
(* Vocabulary of the simulator properties.                                 *)
(***************************************************************************)

\* The step is a run of updateVehiclePositions.
TickStep == ticks' = ticks + 1

\* The requests the step has posted.
Posted == inflight' \ inflight

\* The step is the arrival of the response to r at the simulator.
Received(r) == r \in inflight /\ r.status # 0 /\ inflight' = inflight \ {r}

(***************************************************************************)
(* C17: every update cycle of the simulator works on the vehicles the      *)
(* backend holds at that time: it posts an update for exactly the stored   *)
(* vehicles, so for a vehicle created after the simulator started and not  *)
(* for a vehicle that has been deleted.                                    *)
(***************************************************************************)
C17_Original ==
    [][TickStep =>
          {r.req.name.s : r \in Posted} = {store[i].name : i \in DOMAIN store}]_vars

(***************************************************************************)
(* C19: a tick posts one update for every cached vehicle, all of them      *)
(* before any is answered; a failed update changes nothing in the cache,   *)
(* is not posted again, does not stop the simulator and does not keep      *)
(* later ticks from running; a cached position changes only when the       *)
(* response of an update of that vehicle arrives with success, and it      *)
(* becomes the position of that update.                                    *)
(***************************************************************************)
TickPostsAll ==
    TickStep =>
        /\ inflight \subseteq inflight'
        /\ \A r \in Posted : r.status = 0 /\ r.tick = ticks'
        /\ \A i \in 1..Len(vehicles) :
              Cardinality({r \in Posted : r.index = i}) = 1
        /\ Cardinality(Posted) = Len(vehicles)

FailureIsSkipped ==
    \A r \in inflight :
        (Received(r) /\ r.status \notin 200..299) =>
            /\ vehicles' = vehicles
            /\ simPc' = simPc
            /\ ticks' = ticks
            /\ [tick |-> r.tick, index |-> r.index, status |-> r.status]
                  \in simLog'

CacheFollowsSuccess ==
    \A i \in DOMAIN vehicles :
        (simPc = "running" /\ vehicles'[i] # vehicles[i]) =>
            \E r \in inflight :
                /\ Received(r)
                /\ r.status \in 200..299
                /\ r.index = i
                /\ vehicles'[i].lat = r.req.lat
                /\ vehicles'[i].lng = r.req.lng
                /\ vehicles'[i].name = vehicles[i].name

C19_FireAndForget ==
    /\ [][TickPostsAll /\ FailureIsSkipped /\ CacheFollowsSuccess]_vars
    /\ [][simPc = "running" => simPc' = "running"]_vars
    /\ []((simPc = "running" /\ ticks < MaxTicks) => ENABLED SimTick)

\* The update of one of two cached vehicles failed in the first tick, and
\* the second tick has posted an update for that vehicle again.
C19_Witness ==
    /\ Len(vehicles) = 2
    /\ \E f \in simLog :
          /\ f.tick = 1
          /\ \E r \in inflight : r.tick = 2 /\ r.index = f.index

(***************************************************************************)
(* Overlapping requests.  A handler runs up to an await, other handlers    *)
(* run, and it goes on when the database has answered: create awaits       *)
(* findOne and then save, update awaits findOne and then save, delete by   *)
(* name awaits the single operation findOneAndDelete.  handlers holds the  *)
(* handlers that wait between their findOne and their save: n is the       *)
(* number of the request, found what findOne returned (0: nothing), doc    *)
(* the document it loaded and v that document's version (__v).  version    *)
(* maps each stored document to its __v.                                   *)
(***************************************************************************)
MaxHandlers == 2

Waiting(n, op, req, found, doc, v) ==
    [n |-> n, op |-> op, req |-> req, found |-> found, doc |-> doc, v |-> v]

\* What the create handler answers before it reads anything: <<>> when it
\* goes on to findOne.
CreateVehicleRefusal(req) ==
    LET validation == validateCoordinates(ParseFloat(req.lat), ParseFloat(req.lng))
    IN  IF NameFalsy(req.name) \/ req.lat = Undef \/ req.lng = Undef
        THEN <<Response("create", req, 400, "validation", <<>>)>>
        ELSE IF ~validation.valid
        THEN <<Response("create", req, 400, "validation", <<>>)>>
        ELSE <<>>

\* A collection with a unique index on name: the insert of a second
\* document of a name fails.
CreateVehicleSaveUnique(st, nid, clock, req, existingVehicle) ==
    LET newVehicle == NewVehicle(nid, Trim(req.name.s), ParseFloat(req.lat),
                                 ParseFloat(req.lng), clock)
    IN  IF existingVehicle # 0
        THEN Outcome(st, nid, Response("create", req, 400, "conflict", <<>>))
        ELSE IF ~SchemaValid(newVehicle)
                \/ \E i \in DOMAIN st : st[i].name = newVehicle.name
        THEN Outcome(st, nid, Response("create", req, 500, "internal", <<>>))
        ELSE Outcome(st @@ (nid :> newVehicle), nid + 1,
                     Response("create", req, 201, "", <<newVehicle>>))

\* The create handler from the answer existingVehicle of findOne on: the
\* schema has no unique index, so save inserts whatever is stored by now.
CreateVehicleSave(st, nid, clock, req, existingVehicle) ==
    LET newVehicle == NewVehicle(nid, Trim(req.name.s), ParseFloat(req.lat),
                                 ParseFloat(req.lng), clock)
    IN  IF existingVehicle # 0
        THEN Outcome(st, nid, Response("create", req, 400, "conflict", <<>>))
        ELSE IF ~SchemaValid(newVehicle)
        THEN Outcome(st, nid, Response("create", req, 500, "internal", <<>>))
        ELSE Outcome(st @@ (nid :> newVehicle), nid + 1,
                     Response("create", req, 201, "", <<newVehicle>>))

\* What the update handler answers before it reads anything.
UpdateVehicleRefusal(req) ==
    LET validation == validateCoordinates(ParseFloat(req.lat), ParseFloat(req.lng))
    IN  IF NameFalsy(req.name) \/ req.lat = Undef \/ req.lng = Undef
        THEN <<Response("update", req, 400, "validation", <<>>)>>
        ELSE IF ~validation.valid
        THEN <<Response("update", req, 400, "validation", <<>>)>>
        ELSE <<>>

\* A save that writes the handler's copy back when the document is gone
\* (an upsert).
SaveVehicleUpsert(st, ver, loaded, loadedVersion, vehicle) ==
    LET id == loaded.id
        entry == vehicle.locationHistory[Len(vehicle.locationHistory)]
        assigned == Len(loaded.locationHistory) + 1 > HistoryCap
    IN  IF id \notin DOMAIN st
        THEN [ok |-> TRUE, store |-> st @@ (id :> vehicle),
              version |-> ver @@ (id :> loadedVersion + 1)]
        ELSE IF assigned /\ ver[id] # loadedVersion
        THEN [ok |-> FALSE, store |-> st, version |-> ver]
        ELSE [ok |-> TRUE,
              store |-> [st EXCEPT ![id] =
                  [vehicle EXCEPT !.locationHistory =
                      IF assigned THEN vehicle.locationHistory
                      ELSE Append(st[id].locationHistory, entry)]],
              version |-> [ver EXCEPT ![id] = ver[id] + 1]]

\* vehicle.save() of the update handler, for the document loaded (with
\* version loadedVersion) and the handler's modified copy vehicle.  save
\* sends the changes, not the document: lat, lng and lastUpdated are set;
\* an array that was only pushed to since it was loaded is sent as a push
\* of the new entry, without a condition on the version; an array that was
\* assigned (the slice) is sent whole, on the condition that the stored
\* version is the loaded one.  No matching document makes save throw.
SaveVehicle(st, ver, loaded, loadedVersion, vehicle) ==
    LET id == loaded.id
        entry == vehicle.locationHistory[Len(vehicle.locationHistory)]
        assigned == Len(loaded.locationHistory) + 1 > HistoryCap
    IN  IF id \notin DOMAIN st
        THEN [ok |-> FALSE, store |-> st, version |-> ver]
        ELSE IF assigned /\ ver[id] # loadedVersion
        THEN [ok |-> FALSE, store |-> st, version |-> ver]
        ELSE [ok |-> TRUE,
              store |-> [st EXCEPT ![id] =
                  [vehicle EXCEPT !.locationHistory =
                      IF assigned THEN vehicle.locationHistory
                      ELSE Append(st[id].locationHistory, entry)]],
              version |-> [ver EXCEPT ![id] = ver[id] + 1]]

\* The update handler from the loaded document on.
UpdateVehicleSave(st, ver, clock, req, loaded, loadedVersion) ==
    LET vehicle == UpdatedVehicle(loaded, ParseFloat(req.lat), ParseFloat(req.lng),
                                  req.lastUpdated, clock)
        saved == SaveVehicle(st, ver, loaded, loadedVersion, vehicle)
    IN  IF ~SchemaValid(vehicle) \/ ~saved.ok
        THEN [store |-> st, version |-> ver,
              resp |-> Response("update", req, 500, "internal", <<>>)]
        ELSE [store |-> saved.store, version |-> saved.version,
              resp |-> Response("update", req, 200, "", <<vehicle>>)]

\* The requests in flight together.
ConcCreateInputs ==
    {Req(Name(<<"b">>), Num(0), Num(0), Undef, NoId),
     Req(Name(<<"a">>), Num(0), Num(0), Undef, NoId),
     Req(Name(<<"b">>), Undef, Num(0), Undef, NoId)}

ConcUpdateInputs ==
    {Req(Name(<<"a">>), Num(1), Num(1), Undef, NoId),
     Req(Name(<<"a">>), Num(2), Num(2), Undef, NoId),
     Req(Name(<<"b">>), Num(1), Num(1), Undef, NoId),
     Req(Name(<<"a">>), Num(LatLimit + 1), Num(1), Undef, NoId)}

\* The seeded vehicle was created with version 0 and each of its updates
\* pushed one entry and incremented the version.
SeedVersion(st) == [i \in DOMAIN st |-> Len(st[i].locationHistory) - 1]

\* The names of this specification have no whitespace: trimming a query
\* filter or not gives the same documents.
InitConc ==
    /\ store \in {EmptyStore, SeedStore}
    /\ version = SeedVersion(store)
    /\ nextId = Cardinality(DOMAIN store) + 1
    /\ now = 1
    /\ ops = 0
    /\ queryTrims = FALSE
    /\ resp = NoResponse
    /\ vargs = <<Undef, Undef>>
    /\ vres = NoResult
    /\ handlers = {}
    /\ UserIdle /\ AppIdle /\ SimIdle

\* A request arrives: the handler answers at once or waits for findOne.
Arrive(refusal, waiting) ==
    /\ ops < MaxOps
    /\ ops' = ops + 1
    /\ IF refusal # <<>>
       THEN resp' = refusal[1] /\ handlers' = handlers
       ELSE /\ Cardinality(handlers) < MaxHandlers
            /\ handlers' = handlers \cup {waiting}
            /\ resp' = resp
    /\ UNCHANGED <<store, version, now, nextId, queryTrims, vargs, vres>>
    /\ UNCHANGED <<userVars, appVars, simVars>>

CreateFind ==
    \E req \in ConcCreateInputs :
        Arrive(CreateVehicleRefusal(req),
               Waiting(ops + 1, "create", req,
                       FindOneByName(store, Trim(req.name.s)), <<>>, 0))

CreateSave ==
    \E h \in handlers :
        /\ h.op = "create"
        /\ LET out == CreateVehicleSave(store, nextId, now, h.req, h.found)
           IN  /\ out.nextId <= MaxId + 1
               /\ store' = out.store
               /\ nextId' = out.nextId
               /\ resp' = out.resp
               /\ version' = [i \in DOMAIN out.store |->
                                 IF i \in DOMAIN store THEN version[i] ELSE 0]
        /\ handlers' = handlers \ {h}
        /\ UNCHANGED <<now, ops, queryTrims, vargs, vres>>
        /\ UNCHANGED <<userVars, appVars, simVars>>

UpdateFind ==
    \E req \in ConcUpdateInputs :
        LET found == FindOneByName(store, req.name.s)
        IN  Arrive(IF UpdateVehicleRefusal(req) # <<>>
                   THEN UpdateVehicleRefusal(req)
                   ELSE IF found = 0
                   THEN <<Response("update", req, 404, "notfound", <<>>)>>
                   ELSE <<>>,
                   Waiting(ops + 1, "update", req, found,
                           IF found = 0 THEN <<>> ELSE <<store[found]>>,
                           IF found = 0 THEN 0 ELSE version[found]))

UpdateSave ==
    \E h \in handlers :
        /\ h.op = "update"
        /\ LET out == UpdateVehicleSave(store, version, now, h.req, h.doc[1], h.v)
           IN  /\ store' = out.store
               /\ version' = out.version
               /\ resp' = out.resp
        /\ handlers' = handlers \ {h}
        /\ UNCHANGED <<now, nextId, ops, queryTrims, vargs, vres>>
        /\ UNCHANGED <<userVars, appVars, simVars>>

\* DELETE /name/:name: findOneAndDelete is one operation of the database.
DeleteNow ==
    \E name \in {<<"a">>, <<"b">>} :
        LET out == DeleteVehicleByName(store, nextId,
                                       Req(Name(name), Undef, Undef, Undef, NoId))
        IN  /\ ops < MaxOps
            /\ ops' = ops + 1
            /\ store' = out.store
            /\ resp' = out.resp
            /\ version' = [i \in DOMAIN out.store |-> version[i]]
            /\ UNCHANGED <<now, nextId, queryTrims, vargs, vres, handlers>>
            /\ UNCHANGED <<userVars, appVars, simVars>>

\* DELETE /:id: findByIdAndDelete is one operation of the database.
DeleteByIdNow ==
    \E id \in {ObjectId(n) : n \in 1..MaxId} :
        LET out == DeleteVehicleById(store, nextId,
                                     Req(NoName, Undef, Undef, Undef, id))
        IN  /\ ops < MaxOps
            /\ ops' = ops + 1
            /\ store' = out.store
            /\ resp' = out.resp
            /\ version' = [i \in DOMAIN out.store |-> version[i]]
            /\ UNCHANGED <<now, nextId, queryTrims, vargs, vres, handlers>>
            /\ UNCHANGED <<userVars, appVars, simVars>>

NextConc ==
    \/ CreateFind
    \/ CreateSave
    \/ UpdateFind
    \/ UpdateSave
    \/ DeleteNow
    \/ DeleteByIdNow

SpecConc == InitConc /\ [][NextConc]_vars

(***************************************************************************)
(* Vocabulary of the properties of overlapping requests.                   *)
(***************************************************************************)

\* The step is the save of the waiting handler h.
Resumed(h) == h \in handlers /\ handlers' = handlers \ {h}

\* The step is the arrival of a request that goes on to wait.
Began(h) == h \notin handlers /\ handlers' = handlers \cup {h}

(***************************************************************************)
(* C18: two creates of one name that are both past their existence check  *)
(* before either has saved have both found nothing, and both inserts       *)
(* succeed: a create whose check found nothing inserts its vehicle and     *)
(* answers 201 whatever has been stored in the meantime, so two stored     *)
(* vehicles of the same name are reachable.                                *)
(***************************************************************************)
CheckSeesStore ==
    \A h \in handlers' :
        (Began(h) /\ h.op = "create") =>
            (h.found = 0 <=>
                \A i \in DOMAIN store : store[i].name # Trim(h.req.name.s))

InsertAfterEmptyCheck ==
    \A h \in handlers :
        (Resumed(h) /\ h.op = "create" /\ h.found = 0) =>
            /\ resp'.status = 201
            /\ \E id \in DOMAIN store' \ DOMAIN store :
                  /\ store'[id].name = Trim(h.req.name.s)
                  /\ \A i \in DOMAIN store : store'[i] = store[i]

C18_FindThenInsertRace == [][CheckSeesStore /\ InsertAfterEmptyCheck]_vars

\* Two vehicles of the same name are stored.
C18_Witness ==
    \E i, j \in DOMAIN store : i # j /\ store[i].name = store[j].name

(***************************************************************************)
(* C20: under any interleaving of update requests for one vehicle, the     *)
(* stored locationHistory never has more than 100 entries.                 *)
(***************************************************************************)
C20_Original ==
    \A i \in DOMAIN store : Len(store[i].locationHistory) <= HistoryCap

(***************************************************************************)
(* C21: an update whose vehicle was deleted between the handler's lookup   *)
(* and its save does not bring the vehicle back: the save leaves the       *)
(* collection as the delete left it, so the vehicle is absent once both    *)
(* requests have finished.                                                 *)
(***************************************************************************)
C21_UpdateNeverRecreates ==
    [][\A h \in handlers :
          (Resumed(h) /\ h.op = "update" /\ h.doc[1].id \notin DOMAIN store) =>
              /\ store' = store
              /\ h.doc[1].id \notin DOMAIN store']_vars

\* The update of "a" was the last request to finish, its vehicle had been
\* deleted meanwhile, and no vehicle "a" is stored.
C21_Witness ==
    /\ handlers = {}
    /\ resp.op = "update"
    /\ resp.status = 500
    /\ resp.req.name = Name(<<"a">>)
    /\ \A i \in DOMAIN store : store[i].name # <<"a">>

(***************************************************************************)
(* C23: a login that gives a stored user's username or email and that      *)
(* user's password is answered 200 with that user's id, username and       *)
(* email, in every user store the service can reach, also when another     *)
(* user's username is this user's email.                                   *)
(***************************************************************************)
C23_Original ==
    [][\A i \in DOMAIN users :
          LET req == uresp'.req
          IN  (/\ HandledUser("login")
               /\ req.username.t = "string"
               /\ req.password.t = "string"
               /\ \/ users[i].username = req.username.s
                  \/ users[i].email = req.username.s
               /\ BcryptCompare(req.password.s, users[i].password))
                 => /\ uresp'.status = 200
                    /\ uresp'.user = PublicUser(users[i])]_vars

(***************************************************************************)
(* C24: a create with malformed input (name missing, empty or blank, lat   *)
(* or lng missing or failing the range/NaN check) is answered with         *)
(* ValidationError (400), never with InternalError (500); in particular a  *)
(* name of whitespace only gets 400; and every stored vehicle's name is a  *)
(* non-empty string.                                                       *)
(***************************************************************************)
Malformed(req) ==
    \/ req.name.t = "undefined"
    \/ Trim(req.name.s) = <<>>
    \/ ~GoodCoords(req)

StoredNamesNonEmpty == \A i \in DOMAIN store : store[i].name # <<>>

C24_Original ==
    /\ []StoredNamesNonEmpty
    /\ [][(Handled("create") /\ Malformed(resp'.req))
             => /\ resp'.status = 400
                /\ resp'.err = "validation"]_vars

====
